---- MODULE Spec2Model ----
(***************************************************************************)
(* Model of the browser client of the web-security scanner:                *)
(*   - the authenticated API client (frontend/src/services/api.ts): the    *)
(*     request interceptor that attaches the bearer token and the response *)
(*     interceptor that refreshes the token on a 401 and retries once;     *)
(*   - the login form (frontend/src/pages/Login.tsx) and the logout button *)
(*     (frontend/src/components/Layout.tsx), which create and destroy the  *)
(*     session the client reads;                                           *)
(*   - the scan detail view (frontend/src/pages/ScanDetail.tsx): the scan  *)
(*     query with its refetch interval and the vulnerability query.        *)
(*                                                                         *)
(* JavaScript runs every handler to completion: a step of the model is one *)
(* task of the event loop, from the event that starts it (a user action,   *)
(* the arrival of an HTTP response) to the next await on the network.      *)
(* axios runs the request interceptors of api(config) in the promise chain *)
(* of that same task, so "setTokens; api(originalRequest)" is one step.    *)
(***************************************************************************)
EXTENDS Integers, Sequences, FiniteSets, TLC

\* ---------------------------------------------------------------- bounds
\* number of data requests the pages issue through the client
NReq == 2
\* number of token pairs the backend can issue (logins and refreshes)
MaxTok == 3
\* number of scan fetches the scan detail view issues
MaxFetch == 4
\* number of pieces of the text typed into the URL field of the new-scan form
MaxUrlLen == 2
\* number of entries of a structured validation detail
MaxDetail == 2
\* number of entries of the browser's history stack
MaxHist == 3
\* number of pages of scans the backend may report for one filter
MaxPages == 7

\* ------------------------------------------------------------- constants
\* a falsy token: the store's accessToken / refreshToken when absent
NoToken == 0
\* error.response?.status of a failure that carries no response
NoResponse == 0
\* the status the response interceptor recovers from
UNAUTHORIZED == 401
\* what a request ends with: HTTP statuses of the backend (success, 401,
\* another 4xx, 5xx) and NoResponse, a network failure
Statuses == {200, UNAUTHORIZED, 422, 500, NoResponse}
\* what a failed refresh call ends with; the handler does not look at it
RefreshFailures == {UNAUTHORIZED, NoResponse}

IsSuccess(st) == st = 200

\* the backend numbers the token pairs it issues: the access_token and the
\* refresh_token of pair k in the response data of /auth/login, /auth/refresh
AccessOf(k) == k
RefreshOf(k) == 0 - k

\* the requests that go through the intercepted client `api`
LoginReq == <<"login">>
MeReq == <<"me">>
DataReqs == {<<"data", i>> : i \in 1..NReq}
Reqs == {LoginReq, MeReq} \cup DataReqs

VARIABLES
    store,          \* useAuthStore state: accessToken, refreshToken, isAuthenticated
    req,            \* per request: its config, where it is, what its caller got
    nextTok,        \* backend: the number of token pairs issued so far
    loginPc,        \* Login.handleSubmit: "idle" | "awaitLogin" | "awaitMe"
    tokenResponse,  \* Login.handleSubmit: the pair returned by /auth/login
    lastRefresh,    \* history: the last successful refresh since login/logout
    mounted,        \* ScanDetail is mounted
    serverStatus,   \* backend: the status of the scan
    scan,           \* scan query: data (the status last fetched), fetching, failed
    interval,       \* scan query: the refetch interval that is armed
    vuln,           \* vulnerability query: "idle" | "fetching" | "success" | "error"
    fetches,        \* history: requests issued by the view, by cause
    url,            \* NewScan: the text of the URL field, as a sequence of pieces
    agreed,         \* NewScan: the agreement checkbox
    loading,        \* NewScan: a create request is in flight
    posted,         \* history: target_url of the last POST /scans, or NoPost
    formToast,      \* NewScan: the error toast shown last, or "none"
    screen,         \* the page whose submit failed: "none" | "register" | "login"
    failure,        \* the error its catch block received
    pending,        \* Register: messages whose setTimeout has not fired yet
    toasts,         \* the error toasts shown, each a sequence of joined parts
    history,        \* router: the history stack, the current location last
    page,           \* ScanHistory: the page asked for
    statusFilter,   \* ScanHistory: the status asked for, "" for all
    list,           \* list query: the data of the current key, if fetched
    clicked         \* history: the control of ScanHistory used last

apiVars == <<store, req, nextTok, loginPc, tokenResponse, lastRefresh>>
pollVars == <<mounted, serverStatus, scan, interval, vuln, fetches>>
formVars == <<url, agreed, loading, posted, formToast>>
toastVars == <<screen, failure, pending, toasts>>
routeVars == <<history>>
listVars == <<page, statusFilter, list, clicked>>
nonApiVars == <<pollVars, formVars, toastVars, routeVars, listVars>>
nonPollVars == <<apiVars, formVars, toastVars, routeVars, listVars>>
nonFormVars == <<apiVars, pollVars, toastVars, routeVars, listVars>>
nonToastVars == <<apiVars, pollVars, formVars, routeVars, listVars>>
nonListVars == <<apiVars, pollVars, formVars, toastVars, routeVars>>
\* what a step of the router leaves alone besides the store
nonRouteVars == <<req, nextTok, loginPc, tokenResponse, lastRefresh,
                  pollVars, formVars, toastVars, listVars>>
vars == <<store, req, nextTok, loginPc, tokenResponse, lastRefresh,
          mounted, serverStatus, scan, interval, vuln, fetches,
          url, agreed, loading, posted, formToast,
          screen, failure, pending, toasts, history,
          page, statusFilter, list, clicked>>

\* ------------------------------------------------------------ auth store
\* stores/authStore: the state and its three mutators
EmptyStore == [accessToken |-> NoToken, refreshToken |-> NoToken, isAuthenticated |-> FALSE]

setTokens(s, access, refresh) ==
    [s EXCEPT !.accessToken = access, !.refreshToken = refresh]

login(s, access, refresh) ==
    [accessToken |-> access, refreshToken |-> refresh, isAuthenticated |-> TRUE]

logout(s) == EmptyStore

\* --------------------------------------------------------------- request
\* a request config and the bookkeeping of its call
\*   pc            "idle" | "sent" | "refreshing" | "done"
\*   retry         originalRequest._retry
\*   Authorization the bearer token in config.headers (NoToken: no header)
\*   rt            the refreshToken read at line 36, sent in the refresh call
\*   error         status of the error the response interceptor is handling
\*   result        what the caller's promise settled with
\* history, written when the event happens and never read by the code:
\*   refreshAuth      the Authorization header of the refresh call in flight
\*   nSend, nRefresh  number of sends of this request / refresh calls for it
\*   storeAtSend      the store's tokens at the moment of the last send
\*   issued           the pair the refresh call for this request returned
\*   refreshed        "none" | "ok" | "failed": how the refresh call ended
\*   answers          the statuses the backend answered the sends with
\*   tornDown         logout() was called while handling this request
\* When the caller's promise settles the config is garbage: only the result
\* and the counts are kept.
NoResult == [kind |-> "none", from |-> "none", status |-> 0]

NewRequest ==
    [pc |-> "idle", retry |-> FALSE, Authorization |-> NoToken, rt |-> NoToken,
     refreshAuth |-> NoToken,
     error |-> 0, result |-> NoResult,
     nSend |-> 0, nRefresh |-> 0,
     storeAtSend |-> [accessToken |-> NoToken, refreshToken |-> NoToken],
     issued |-> [accessToken |-> NoToken, refreshToken |-> NoToken], refreshed |-> "none", answers |-> <<>>, tornDown |-> FALSE]

\* the record of a request whose promise has settled with `result`
SettledRequest(rq, result) ==
    [NewRequest EXCEPT !.pc = "done", !.result = result, !.retry = rq.retry,
                       !.nSend = rq.nSend, !.nRefresh = rq.nRefresh,
                       !.refreshed = rq.refreshed, !.answers = rq.answers]

\* a request interceptor that attaches nothing
RequestInterceptorNoAttach(config, s) == config

\* api.interceptors.request: attach the stored access token, if any
RequestInterceptor(config, s) ==
    IF s.accessToken # NoToken
    THEN [config EXCEPT !.Authorization = s.accessToken]
    ELSE config

\* api(config): run the request interceptor and put the request on the wire
SendRequest(config, s) ==
    [RequestInterceptor(config, s) EXCEPT
        !.pc = "sent",
        !.nSend = @ + 1,
        !.storeAtSend = [accessToken |-> s.accessToken, refreshToken |-> s.refreshToken]]

Last(seq) == seq[Len(seq)]

\* the attempt (1: original, 2: retry) an answer belongs to
Attempt(rq) == IF rq.retry THEN "retry" ELSE "orig"

\* api.interceptors.response, fulfilled handler: (response) => response
ResponseFulfilled(rq, st) ==
    SettledRequest(rq, [kind |-> "ok", from |-> Attempt(rq), status |-> st])

\* return Promise.reject(error), line 57
RejectWith(rq, from, st) ==
    SettledRequest(rq, [kind |-> "err", from |-> from, status |-> st])

\* line 33 without the _retry test
ShouldRecoverNoRetryMark(rq, st) == st = UNAUTHORIZED

\* line 33 with any failure taken for an authorization failure
ShouldRecoverAnyError(rq, st) == ~rq.retry

\* the condition of line 33
ShouldRecover(rq, st) == st = UNAUTHORIZED /\ ~rq.retry

\* api.interceptors.response, rejected handler, up to its await (lines 29-42)
\* or to its end when it does not refresh (lines 52-57): the request and the
\* store after it.  While the refresh call is awaited the request is not on
\* the wire, and line 47 overwrites its header before it is sent again: the
\* header of the failed attempt is not kept.
\* the refresh call sent through the intercepted client `api`: the request
\* interceptor attaches the stored access token to it
RefreshCallViaApi(s) ==
    [Authorization |-> RequestInterceptor(NewRequest, s).Authorization,
     refresh_token |-> s.refreshToken]

\* axios.post('/api/v1/auth/refresh', { refresh_token }) (lines 38-40): the
\* bare axios import, which has no interceptors, so no Authorization header
RefreshCall(s) == [Authorization |-> NoToken, refresh_token |-> s.refreshToken]

\* line 48 as `return await api(originalRequest)`: a failure of the retry is
\* caught by the catch of lines 49-51, which logs out
ResponseRejectedAwaitRetry(rq, st, s) ==
    IF rq.retry
    THEN [rq |-> [RejectWith(rq, "retry", st) EXCEPT !.tornDown = TRUE],
          store |-> logout(s)]
    ELSE IF ShouldRecover(rq, st)
    THEN LET marked == [rq EXCEPT !.retry = TRUE, !.error = st]
         IN  IF s.refreshToken # NoToken
             THEN [rq |-> [marked EXCEPT !.pc = "refreshing",
                                         !.rt = RefreshCall(s).refresh_token,
                                         !.refreshAuth = RefreshCall(s).Authorization,
                                         !.nRefresh = @ + 1,
                                         !.Authorization = NoToken,
                                         !.storeAtSend = NewRequest.storeAtSend],
                   store |-> s]
             ELSE [rq |-> [RejectWith(marked, "orig", st) EXCEPT !.tornDown = TRUE],
                   store |-> logout(s)]
    ELSE [rq |-> RejectWith(rq, Attempt(rq), st), store |-> s]

\* a single-flight interceptor: a 401 arriving while another request's refresh
\* call is in flight waits for that call instead of issuing its own
ResponseRejectedSingleFlight(rq, st, s) ==
    IF ShouldRecover(rq, st)
    THEN LET marked == [rq EXCEPT !.retry = TRUE, !.error = st]
             shared == \E q \in DOMAIN req : req[q].pc = "refreshing"
         IN  IF s.refreshToken # NoToken
             THEN [rq |-> [marked EXCEPT !.pc = "refreshing",
                                         !.rt = RefreshCall(s).refresh_token,
                                         !.refreshAuth = RefreshCall(s).Authorization,
                                         !.nRefresh = IF shared THEN @ ELSE @ + 1,
                                         !.Authorization = NoToken,
                                         !.storeAtSend = NewRequest.storeAtSend],
                   store |-> s]
             ELSE [rq |-> [RejectWith(marked, "orig", st) EXCEPT !.tornDown = TRUE],
                   store |-> logout(s)]
    ELSE [rq |-> RejectWith(rq, Attempt(rq), st), store |-> s]

ResponseRejected(rq, st, s) ==
    IF ShouldRecover(rq, st)
    THEN LET marked == [rq EXCEPT !.retry = TRUE, !.error = st]
         IN  IF s.refreshToken # NoToken
             THEN [rq |-> [marked EXCEPT !.pc = "refreshing",
                                         !.rt = RefreshCall(s).refresh_token,
                                         !.refreshAuth = RefreshCall(s).Authorization,
                                         !.nRefresh = @ + 1,
                                         !.Authorization = NoToken,
                                         !.storeAtSend = NewRequest.storeAtSend],
                   store |-> s]
             ELSE [rq |-> [RejectWith(marked, "orig", st) EXCEPT !.tornDown = TRUE],
                   store |-> logout(s)]
    ELSE [rq |-> RejectWith(rq, Attempt(rq), st), store |-> s]

\* lines 44-48 without the setTokens call of line 45
RefreshSucceededNoStore(rq, access, refresh, s) ==
    LET hdr == [rq EXCEPT !.Authorization = access, !.refreshed = "ok",
                         !.refreshAuth = NoToken,
                         !.issued = [accessToken |-> access, refreshToken |-> refresh]]
    IN  [rq |-> SendRequest(hdr, s), store |-> s]

\* lines 44-48 keeping the old refresh token: setTokens(access_token, refreshToken)
RefreshSucceededKeepRefresh(rq, access, refresh, s) ==
    LET s1 == setTokens(s, access, s.refreshToken)
        hdr == [rq EXCEPT !.Authorization = access, !.refreshed = "ok",
                         !.refreshAuth = NoToken,
                         !.issued = [accessToken |-> access, refreshToken |-> refresh]]
    IN  [rq |-> SendRequest(hdr, s1), store |-> s1]

\* lines 44-48 without the `return` of line 48: the retry is sent, and the
\* handler falls through to line 57
RefreshSucceededNoReturn(rq, access, refresh, s) ==
    LET s1 == setTokens(s, access, refresh)
        hdr == [rq EXCEPT !.Authorization = access, !.refreshed = "ok",
                         !.refreshAuth = NoToken,
                         !.issued = [accessToken |-> access, refreshToken |-> refresh]]
    IN  [rq |-> RejectWith(SendRequest(hdr, s1), "orig", rq.error), store |-> s1]

\* lines 44-48: the refresh call returned the pair (access, refresh)
RefreshSucceeded(rq, access, refresh, s) ==
    LET s1 == setTokens(s, access, refresh)
        hdr == [rq EXCEPT !.Authorization = access, !.refreshed = "ok",
                         !.refreshAuth = NoToken,
                         !.issued = [accessToken |-> access, refreshToken |-> refresh]]
    IN  [rq |-> SendRequest(hdr, s1), store |-> s1]

\* lines 49-51 and 57 rejecting with the refresh call's error, session kept
RefreshFailedRethrow(rq, st, s) ==
    [rq |-> RejectWith([rq EXCEPT !.refreshed = "failed"], "refresh", st), store |-> s]

\* lines 49-51 and 57: the refresh call failed with status st
RefreshFailed(rq, st, s) ==
    [rq |-> [RejectWith([rq EXCEPT !.refreshed = "failed"], "orig", rq.error)
                EXCEPT !.tornDown = TRUE],
     store |-> logout(s)]

\* ----------------------------------------------------------------- steps
NoRefresh == [active |-> FALSE, stale |-> NoToken, fresh |-> NoToken]

\* Login.handleSubmit without lines 32-33: /auth/me is requested before the
\* tokens of the login response are stored
SettledMeFirst(r, out, pair) ==
    IF out.rq.pc # "done"
    THEN /\ req' = [req EXCEPT ![r] = out.rq]
         /\ store' = out.store
         /\ UNCHANGED <<loginPc, tokenResponse>>
    ELSE IF r = LoginReq /\ out.rq.result.kind = "ok"
    THEN LET s1 == out.store
         IN  /\ store' = s1
             /\ tokenResponse' = pair
             /\ req' = [req EXCEPT ![r] = NewRequest, ![MeReq] = SendRequest(NewRequest, s1)]
             /\ loginPc' = "awaitMe"
    ELSE IF r = MeReq /\ out.rq.result.kind = "ok"
    THEN /\ store' = login(out.store, AccessOf(tokenResponse), RefreshOf(tokenResponse))
         /\ req' = [req EXCEPT ![r] = NewRequest]
         /\ loginPc' = "idle"
         /\ tokenResponse' = NoToken
    ELSE IF r \in {LoginReq, MeReq}
    THEN /\ req' = [req EXCEPT ![r] = NewRequest]
         /\ store' = out.store
         /\ loginPc' = "idle"
         /\ tokenResponse' = NoToken
    ELSE /\ req' = [req EXCEPT ![r] = out.rq]
         /\ store' = out.store
         /\ UNCHANGED <<loginPc, tokenResponse>>

\* Login.handleSubmit after `await authAPI.login(...)` (lines 29-36, 47-72)
\* and after `await authAPI.me()` (lines 36-46, 47-72), and the caller of a
\* data request: what runs in the task that settles request r with `out`.
\* The form keeps nothing of a settled /auth/login or /auth/me request but
\* tokenResponse: its record is dropped.
Settled(r, out, pair) ==
    IF out.rq.pc # "done"
    THEN /\ req' = [req EXCEPT ![r] = out.rq]
         /\ store' = out.store
         /\ UNCHANGED <<loginPc, tokenResponse>>
    ELSE IF r = LoginReq /\ out.rq.result.kind = "ok"
    THEN LET s1 == setTokens(out.store, AccessOf(pair), RefreshOf(pair))
         IN  /\ store' = s1
             /\ tokenResponse' = pair
             /\ req' = [req EXCEPT ![r] = NewRequest, ![MeReq] = SendRequest(NewRequest, s1)]
             /\ loginPc' = "awaitMe"
    ELSE IF r = MeReq /\ out.rq.result.kind = "ok"
    THEN /\ store' = login(out.store, AccessOf(tokenResponse), RefreshOf(tokenResponse))
         /\ req' = [req EXCEPT ![r] = NewRequest]
         /\ loginPc' = "idle"
         /\ tokenResponse' = NoToken
    ELSE IF r \in {LoginReq, MeReq}
    THEN /\ req' = [req EXCEPT ![r] = NewRequest]
         /\ store' = out.store
         /\ loginPc' = "idle"
         /\ tokenResponse' = NoToken
    ELSE /\ req' = [req EXCEPT ![r] = out.rq]
         /\ store' = out.store
         /\ UNCHANGED <<loginPc, tokenResponse>>

\* the history of the last refresh after a step that settles r with `out`
Forget(r, out) ==
    \/ out.rq.tornDown /\ out.rq.pc = "done"
    \/ r \in {LoginReq, MeReq} /\ out.rq.pc = "done" /\ out.rq.result.kind = "ok"

\* a client that queues new calls while any refresh call is in flight
CallApiSuspended(r) ==
    /\ \A q \in Reqs : req[q].pc # "refreshing"
    /\ r \in DataReqs
    /\ req[r].pc = "idle"
    /\ \A i \in 1..(r[2] - 1) : req[<<"data", i>>].pc # "idle"
    /\ req' = [req EXCEPT ![r] = SendRequest(NewRequest, store)]
    /\ UNCHANGED <<store, nextTok, loginPc, tokenResponse, lastRefresh>>
    /\ UNCHANGED nonApiVars

\* a page calls the API: scanAPI.*, vulnerabilityAPI.*, reportAPI.*,
\* authAPI.register (api.ts lines 61-141); requests are numbered as issued
CallApi(r) ==
    /\ r \in DataReqs
    /\ req[r].pc = "idle"
    /\ \A i \in 1..(r[2] - 1) : req[<<"data", i>>].pc # "idle"
    /\ req' = [req EXCEPT ![r] = SendRequest(NewRequest, store)]
    /\ UNCHANGED <<store, nextTok, loginPc, tokenResponse, lastRefresh>>
    /\ UNCHANGED nonApiVars

\* Login.handleSubmit up to `await authAPI.login(...)` (lines 18-29); the
\* page is mounted under PublicRoute and the button is disabled while loading
LoginSubmit ==
    /\ loginPc = "idle"
    /\ ~store.isAuthenticated
    /\ loginPc' = "awaitLogin"
    /\ req' = [req EXCEPT ![LoginReq] = SendRequest(NewRequest, store)]
    /\ UNCHANGED <<store, nextTok, tokenResponse, lastRefresh>>
    /\ UNCHANGED nonApiVars

\* the backend answers request r with status st
Respond(r, st) ==
    /\ req[r].pc = "sent"
    /\ LET issues == r = LoginReq /\ IsSuccess(st)
           pair == nextTok + 1
           rq == [req[r] EXCEPT !.answers = Append(@, st)]
           out == IF IsSuccess(st)
                  THEN [rq |-> ResponseFulfilled(rq, st), store |-> store]
                  ELSE ResponseRejected(rq, st, store)
       IN  /\ issues => nextTok < MaxTok
           /\ nextTok' = IF issues THEN pair ELSE nextTok
           /\ Settled(r, out, pair)
           /\ lastRefresh' = IF Forget(r, out) THEN NoRefresh ELSE lastRefresh
    /\ UNCHANGED nonApiVars

\* the backend answers the refresh call of request r with a new token pair
RefreshOk(r) ==
    /\ req[r].pc = "refreshing"
    /\ nextTok < MaxTok
    /\ LET pair == nextTok + 1
           out == RefreshSucceeded(req[r], AccessOf(pair), RefreshOf(pair), store)
       IN  /\ nextTok' = pair
           /\ Settled(r, out, pair)
           /\ lastRefresh' = [active |-> TRUE, stale |-> store.accessToken,
                              fresh |-> AccessOf(pair)]
    /\ UNCHANGED nonApiVars

\* the refresh call of request r fails with status st
RefreshError(r, st) ==
    /\ req[r].pc = "refreshing"
    /\ ~IsSuccess(st)
    /\ LET out == RefreshFailed(req[r], st, store)
       IN  /\ Settled(r, out, NoToken)
           /\ lastRefresh' = NoRefresh
    /\ UNCHANGED nextTok
    /\ UNCHANGED nonApiVars

\* Layout.handleLogout (lines 31-34); Layout is mounted under ProtectedRoute
Logout ==
    /\ store.isAuthenticated
    /\ store' = logout(store)
    /\ lastRefresh' = NoRefresh
    /\ UNCHANGED <<req, nextTok, loginPc, tokenResponse>>
    /\ UNCHANGED nonApiVars


\* ------------------------------------------------------ scan detail view
\* types: ScanStatus
ScanStatus == {"pending", "running", "completed", "failed", "cancelled"}
NonTerminal == {"pending", "running"}
Terminal == ScanStatus \ NonTerminal

\* the interval of line 37, in milliseconds, and `false` of line 39
REFETCH_MS == 3000
IntervalOff == 0

\* the scan query before its first fetch ends: data undefined
NoScan == [data |-> "none", fetching |-> FALSE, failed |-> FALSE]
NoFetches == [mount |-> 0, poll |-> 0, manual |-> 0, vuln |-> 0]
ScanFetches == fetches.mount + fetches.poll + fetches.manual

\* a refetch interval that ignores the status: refetchInterval: 3000
refetchIntervalAlways(data) == REFETCH_MS

\* a refetch interval that stops only at a terminal status: it polls while
\* there is no data
refetchIntervalUnlessTerminal(data) ==
    IF data \in {"completed", "failed", "cancelled"} THEN IntervalOff ELSE REFETCH_MS

\* refetchInterval of the scan query (lines 35-40)
refetchInterval(data) ==
    IF data = "running" \/ data = "pending" THEN REFETCH_MS ELSE IntervalOff

\* the vulnerability query enabled by any terminal status
vulnEnabledOnTerminal(data) == data \in {"completed", "failed", "cancelled"}

\* enabled of the vulnerability query (line 46)
vulnEnabled(data) == data = "completed"

\* what ScanDetail renders (lines 81-100): the spinner during the first load,
\* the not-found view without data, else the scan's detail
Rendered(q) ==
    IF q.data = "none" /\ q.fetching THEN "loading"
    ELSE IF q.data = "none" THEN "notFound"
    ELSE "detail"

\* an interval that outlives the view: the timer is not owned by the observer
ArmedIntervalOrphan(isMounted, data) == refetchInterval(data)

\* the interval the scan query's observer arms: none without a mounted view
ArmedInterval(isMounted, data) ==
    IF isMounted THEN refetchInterval(data) ELSE IntervalOff

\* the backend moves the scan on: pending -> running -> completed | failed,
\* and a cancel of a scan that has not ended
ServerAdvance(to) ==
    /\ \/ serverStatus = "pending" /\ to \in {"running", "cancelled"}
       \/ serverStatus = "running" /\ to \in {"completed", "failed", "cancelled"}
    /\ serverStatus' = to
    /\ UNCHANGED <<mounted, scan, interval, vuln, fetches>>
    /\ UNCHANGED nonPollVars

\* the interval timer fires (lines 32-41): a fetch, unless one is in flight
PollTick ==
    /\ interval = REFETCH_MS
    /\ ~scan.fetching
    /\ ScanFetches < MaxFetch
    /\ scan' = [scan EXCEPT !.fetching = TRUE]
    /\ fetches' = [fetches EXCEPT !.poll = @ + 1]
    /\ UNCHANGED <<mounted, serverStatus, interval, vuln>>
    /\ UNCHANGED nonPollVars

\* a refetch button that also restarts the interval
ManualRefetchRestartsPolling ==
    /\ mounted
    /\ scan.data # "none"
    /\ ScanFetches < MaxFetch
    /\ scan' = [scan EXCEPT !.fetching = TRUE]
    /\ fetches' = [fetches EXCEPT !.manual = @ + 1]
    /\ interval' = REFETCH_MS
    /\ UNCHANGED <<mounted, serverStatus, vuln>>
    /\ UNCHANGED nonPollVars

\* the refresh button, onClick={() => refetch()} (lines 138-140); it is
\* rendered once the scan is loaded (lines 81-100)
ManualRefetch ==
    /\ mounted
    /\ scan.data # "none"
    /\ ScanFetches < MaxFetch
    /\ scan' = [scan EXCEPT !.fetching = TRUE]
    /\ fetches' = [fetches EXCEPT !.manual = @ + 1]
    /\ UNCHANGED <<mounted, serverStatus, interval, vuln>>
    /\ UNCHANGED nonPollVars

\* a vulnerability query that fetches on every completed scan result
ScanFetchOkRefetch ==
    /\ scan.fetching
    /\ LET data == serverStatus
           enables == mounted /\ vulnEnabled(data)
       IN  /\ scan' = [data |-> data, fetching |-> FALSE, failed |-> FALSE]
           /\ interval' = ArmedInterval(mounted, data)
           /\ vuln' = IF enables THEN "fetching" ELSE vuln
           /\ fetches' = IF enables THEN [fetches EXCEPT !.vuln = @ + 1] ELSE fetches
    /\ UNCHANGED <<mounted, serverStatus>>
    /\ UNCHANGED nonPollVars

\* scanAPI.get resolves (line 34): the data is replaced, the interval is
\* recomputed (lines 35-40), and the vulnerability query fetches when this
\* enables it (lines 43-47)
ScanFetchOk ==
    /\ scan.fetching
    /\ LET data == serverStatus
           enables == mounted /\ vulnEnabled(data) /\ ~vulnEnabled(scan.data)
       IN  /\ scan' = [data |-> data, fetching |-> FALSE, failed |-> FALSE]
           /\ interval' = ArmedInterval(mounted, data)
           /\ vuln' = IF enables THEN "fetching" ELSE vuln
           /\ fetches' = IF enables THEN [fetches EXCEPT !.vuln = @ + 1] ELSE fetches
    /\ UNCHANGED <<mounted, serverStatus>>
    /\ UNCHANGED nonPollVars

\* scanAPI.get rejects: the data stays, the interval is recomputed from it
ScanFetchError ==
    /\ scan.fetching
    /\ scan' = [scan EXCEPT !.fetching = FALSE, !.failed = TRUE]
    /\ interval' = ArmedInterval(mounted, scan.data)
    /\ UNCHANGED <<mounted, serverStatus, vuln, fetches>>
    /\ UNCHANGED nonPollVars

\* vulnerabilityAPI.getByScan settles (line 45)
VulnFetchDone(ok) ==
    /\ vuln = "fetching"
    /\ vuln' = IF ok THEN "success" ELSE "error"
    /\ UNCHANGED <<mounted, serverStatus, scan, interval, fetches>>
    /\ UNCHANGED nonPollVars

\* the route changes: the view unmounts and its observers drop their timers
Unmount ==
    /\ mounted
    /\ mounted' = FALSE
    /\ interval' = ArmedInterval(FALSE, scan.data)
    /\ UNCHANGED <<serverStatus, scan, vuln, fetches>>
    /\ UNCHANGED nonPollVars

\* ---------------------------------------------------------------------
\* The new-scan form (NewScan): the URL field, the agreement checkbox and
\* handleSubmit. The text of the field is a sequence of pieces: a scheme
\* prefix, a run of host characters, or a blank.
Schemes == {"http://", "https://"}
Pieces == Schemes \cup {"host", " "}
Urls == UNION {[1..n -> Pieces] : n \in 0..MaxUrlLen}
NoPost == <<"none">>

\* String.prototype.startsWith for a scheme prefix
startsWith(u, prefix) == Len(u) >= 1 /\ u[1] = prefix

\* lines 65-68: complete the scheme
targetUrl(u) ==
    IF ~startsWith(u, "http://") /\ ~startsWith(u, "https://")
    THEN <<"https://">> \o u
    ELSE u

\* the URL parser strips trailing blanks from its input
RECURSIVE TrimEnd(_)
TrimEnd(t) ==
    IF Len(t) >= 1 /\ t[Len(t)] = " " THEN TrimEnd(SubSeq(t, 1, Len(t) - 1)) ELSE t

\* `new URL(t)` does not throw (lines 70-75): a scheme, then a non-empty host
\* without a blank in it; a later "http://" reads as host "http", empty port
\* and a path
URLParses(t) ==
    LET trimmed == TrimEnd(t)
    IN  /\ Len(trimmed) >= 2
        /\ trimmed[1] \in Schemes
        /\ \A i \in 2..Len(trimmed) : trimmed[i] # " "

\* useState initial values (lines 43-47)
FormInit ==
    /\ url = <<>>
    /\ agreed = FALSE
    /\ loading = FALSE
    /\ posted = NoPost
    /\ formToast = "none"

\* the submit button: disabled={loading || !agreed} (line 249)
SubmitDisabled == loading \/ ~agreed

\* onChange of the URL field (line 117)
setUrl(u) ==
    /\ url' = u
    /\ UNCHANGED <<agreed, loading, posted, formToast>>
    /\ UNCHANGED nonFormVars

\* onChange of the checkbox (line 224)
setAgreed(checked) ==
    /\ agreed' = checked
    /\ UNCHANGED <<url, loading, posted, formToast>>
    /\ UNCHANGED nonFormVars

\* handleSubmit without the try/catch around `new URL(targetUrl)`
NewScanSubmitNoValidate ==
    /\ ~SubmitDisabled
    /\ IF url = <<>>
       THEN formToast' = "url" /\ UNCHANGED <<loading, posted>>
       ELSE IF ~agreed
       THEN formToast' = "agree" /\ UNCHANGED <<loading, posted>>
       ELSE /\ loading' = TRUE
            /\ posted' = targetUrl(url)
            /\ UNCHANGED formToast
    /\ UNCHANGED <<url, agreed>>
    /\ UNCHANGED nonFormVars

\* handleSubmit up to `await scanAPI.create(...)` (lines 51-84)
NewScanSubmit ==
    /\ ~SubmitDisabled
    /\ IF url = <<>>
       THEN formToast' = "url" /\ UNCHANGED <<loading, posted>>
       ELSE IF ~agreed
       THEN formToast' = "agree" /\ UNCHANGED <<loading, posted>>
       ELSE IF ~URLParses(targetUrl(url))
       THEN formToast' = "invalid" /\ UNCHANGED <<loading, posted>>
       ELSE /\ loading' = TRUE
            /\ posted' = targetUrl(url)
            /\ UNCHANGED formToast
    /\ UNCHANGED <<url, agreed>>
    /\ UNCHANGED nonFormVars

\* the create request settles (lines 86-93): on success the page is left for
\* the scan's detail view, on failure a toast is shown; loading is reset
CreateDone(ok) ==
    /\ loading
    /\ loading' = FALSE
    /\ IF ok
       THEN url' = <<>> /\ agreed' = FALSE /\ formToast' = "none"
       ELSE formToast' = "failed" /\ UNCHANGED <<url, agreed>>
    /\ UNCHANGED posted
    /\ UNCHANGED nonFormVars

FormNext ==
    \/ \E u \in Urls : setUrl(u)
    \/ \E checked \in BOOLEAN : setAgreed(checked)
    \/ NewScanSubmit
    \/ \E ok \in BOOLEAN : CreateDone(ok)

\* ---------------------------------------------------------------------
\* The catch blocks of Register.handleSubmit and Login.handleSubmit: from the
\* error of a failed call to the error toasts. A toast is the sequence of
\* the texts joined into it; an entry of a validation detail is a string or
\* an object whose msg may be missing (text "").
Texts == {"m1", "m2"}
Entries ==
    [isString : {TRUE}, text : Texts] \cup [isString : {FALSE}, text : Texts \cup {""}]
NoEntries == <<>>
Details ==
    {[kind |-> "undefined", text |-> "", entries |-> NoEntries]}
    \cup {[kind |-> k, text |-> "m1", entries |-> NoEntries] : k \in {"string", "object"}}
    \cup {[kind |-> "array", text |-> "", entries |-> e] :
            e \in UNION {[1..n -> Entries] : n \in 0..MaxDetail}}
ErrorStatuses == {UNAUTHORIZED, 422, 500}
\* error.response with a status and a body, or no response at all
Errors ==
    {[response |-> TRUE, status |-> st, detail |-> d] : st \in ErrorStatuses, d \in Details}
    \cup {[response |-> FALSE, status |-> NoResponse,
           detail |-> [kind |-> "undefined", text |-> "", entries |-> NoEntries]]}

\* Register.tsx 75-78: a string entry as it is, else err.msg || '입력값 오류'
RegisterEntry(err) ==
    IF err.isString THEN <<err.text>>
    ELSE IF err.text # "" THEN <<err.text>> ELSE <<"input-error">>

\* Register.tsx 64-98: the messages the catch block collects
RegisterMessages(error) ==
    LET detail == error.detail
        fromDetail ==
            IF detail.kind = "string" THEN <<<<detail.text>>>>
            ELSE IF detail.kind = "array"
            THEN [i \in 1..Len(detail.entries) |-> RegisterEntry(detail.entries[i])]
            ELSE IF detail.kind = "object" /\ detail.text # "" THEN <<<<detail.text>>>>
            ELSE <<>>
        messages ==
            IF error.response
            THEN IF error.status = 500 THEN <<<<"server-error">>>> ELSE fromDetail
            ELSE <<<<"network">>>>
    IN  IF Len(messages) = 0 THEN <<<<"register-failed">>>> ELSE messages

\* Login.tsx 58: err.msg of one entry; a string has no msg and joins as ''
LoginEntry(err) == IF err.isString THEN "" ELSE err.text

\* Login.tsx 50-67: the one message the catch block builds; an array detail
\* is joined with ', ' into a single text
LoginMessage(error) ==
    LET detail == error.detail
        fromDetail ==
            IF detail.kind = "string" THEN <<detail.text>>
            ELSE IF detail.kind = "array"
            THEN [i \in 1..Len(detail.entries) |-> LoginEntry(detail.entries[i])]
            ELSE <<"login-failed">>
    IN  IF error.response
        THEN IF error.status = 500 THEN <<"server-error">> ELSE fromDetail
        ELSE <<"network">>

\* no failure yet: the value `failure` holds while no submit has failed
NoFailure ==
    [response |-> FALSE, status |-> NoResponse,
     detail |-> [kind |-> "undefined", text |-> "", entries |-> NoEntries]]

ToastInit ==
    /\ screen = "none"
    /\ failure = NoFailure
    /\ pending = <<>>
    /\ toasts = <<>>

\* Register.handleSubmit, catch block (lines 61-105): every message gets a
\* timer of its own, index * 200 ms
RegisterFails(error) ==
    /\ screen = "none"
    /\ screen' = "register"
    /\ failure' = error
    /\ pending' = RegisterMessages(error)
    /\ toasts' = <<>>
    /\ UNCHANGED nonToastVars

\* a timer of lines 102-104 fires: toast.error(msg)
ToastTimer ==
    /\ pending # <<>>
    /\ toasts' = Append(toasts, pending[1])
    /\ pending' = SubSeq(pending, 2, Len(pending))
    /\ UNCHANGED <<screen, failure>>
    /\ UNCHANGED nonToastVars

\* Login.handleSubmit, catch block (lines 47-69): toast.error(message)
LoginFails(error) ==
    /\ screen = "none"
    /\ screen' = "login"
    /\ failure' = error
    /\ toasts' = <<LoginMessage(error)>>
    /\ UNCHANGED pending
    /\ UNCHANGED nonToastVars

\* the toasts expire (duration: 5000) and the form can be submitted again
ToastsExpire ==
    /\ screen # "none" /\ pending = <<>>
    /\ screen' = "none"
    /\ failure' = NoFailure
    /\ toasts' = <<>>
    /\ UNCHANGED pending
    /\ UNCHANGED nonToastVars

ToastNext ==
    \/ \E error \in Errors : RegisterFails(error)
    \/ ToastTimer
    \/ \E error \in Errors : LoginFails(error)
    \/ ToastsExpire

\* ---------------------------------------------------------------------
\* The router (App, ProtectedRoute, PublicRoute). A path is the sequence of
\* its segments; an element is a page or a <Navigate replace>.
Root == <<>>
LoginPath == <<"login">>
DashboardPath == <<"dashboard">>
\* the locations the user can bring up: the routes, a scan's detail, and
\* paths no route matches
Paths ==
    {Root, LoginPath, <<"register">>, DashboardPath, <<"scan", "new">>,
     <<"scan", "1">>, <<"history">>, <<"scan">>, <<"nope">>}

Page(name) == [navigate |-> FALSE, page |-> name, to |-> Root]
Navigate(to) == [navigate |-> TRUE, page |-> "", to |-> to]

\* a route's path pattern matches the location; ":id" matches any segment
Matches(pattern, path) ==
    /\ Len(pattern) = Len(path)
    /\ \A i \in 1..Len(pattern) : pattern[i] = ":id" \/ pattern[i] = path[i]

\* a protected route that renders its children whatever the store says
ProtectedRouteOpen(isAuthenticated, children) == children

\* ProtectedRoute (lines 13-21)
ProtectedRoute(isAuthenticated, children) ==
    IF ~isAuthenticated THEN Navigate(LoginPath) ELSE children

\* PublicRoute (lines 24-32)
PublicRoute(isAuthenticated, children) ==
    IF isAuthenticated THEN Navigate(DashboardPath) ELSE children

\* App (lines 34-101): the element of the best-matching route; a static
\* segment ranks above a parameter, the catch-all comes last
App(path, isAuthenticated) ==
    IF Matches(Root, path) THEN Page("Landing")
    ELSE IF Matches(LoginPath, path) THEN PublicRoute(isAuthenticated, Page("Login"))
    ELSE IF Matches(<<"register">>, path)
    THEN PublicRoute(isAuthenticated, Page("Register"))
    ELSE IF Matches(DashboardPath, path)
    THEN ProtectedRoute(isAuthenticated, Page("Dashboard"))
    ELSE IF Matches(<<"scan", "new">>, path)
    THEN ProtectedRoute(isAuthenticated, Page("NewScan"))
    ELSE IF Matches(<<"scan", ":id">>, path)
    THEN ProtectedRoute(isAuthenticated, Page("ScanDetail"))
    ELSE IF Matches(<<"history">>, path)
    THEN ProtectedRoute(isAuthenticated, Page("ScanHistory"))
    ELSE Navigate(Root)

Location == history[Len(history)]
\* what the router renders in the current state
Element == App(Location, store.isAuthenticated)

\* the application is opened on the landing page
RouteInit == history = <<Root>>

\* a <Link>, a navigate(path) or a typed address: a new history entry
Push(path) ==
    /\ ~Element.navigate
    /\ Len(history) < MaxHist
    /\ history' = Append(history, path)
    /\ UNCHANGED store
    /\ UNCHANGED nonRouteVars

\* navigate(-1) or the browser's back button
Back ==
    /\ ~Element.navigate
    /\ Len(history) >= 2
    /\ history' = SubSeq(history, 1, Len(history) - 1)
    /\ UNCHANGED store
    /\ UNCHANGED nonRouteVars

\* the effect of a rendered <Navigate to replace>
Redirect ==
    /\ Element.navigate
    /\ history' = [history EXCEPT ![Len(history)] = Element.to]
    /\ UNCHANGED store
    /\ UNCHANGED nonRouteVars

\* Login.handleSubmit, lines 39-46: login(...) and navigate('/dashboard')
LoginNavigates ==
    /\ Element = Page("Login")
    /\ Len(history) < MaxHist
    /\ store' = login(store, AccessOf(1), RefreshOf(1))
    /\ history' = Append(history, DashboardPath)
    /\ UNCHANGED nonRouteVars

\* Layout.handleLogout, lines 31-34: logout() and navigate('/login')
LogoutNavigates ==
    /\ Element.page \in {"Dashboard", "NewScan", "ScanDetail", "ScanHistory"}
    /\ Len(history) < MaxHist
    /\ store' = logout(store)
    /\ history' = Append(history, LoginPath)
    /\ UNCHANGED nonRouteVars

\* the response interceptor tears the session down (api.ts 50, 53): logout()
\* without a navigation; a rendered redirect has taken effect before the
\* response of a request is handled
TearDown ==
    /\ ~Element.navigate
    /\ store.isAuthenticated
    /\ store' = logout(store)
    /\ UNCHANGED history
    /\ UNCHANGED nonRouteVars

RouteNext ==
    \/ \E path \in Paths : Push(path)
    \/ Back
    \/ Redirect
    \/ LoginNavigates
    \/ LogoutNavigates
    \/ TearDown

\* ------------------------------------------------------ scan history page
\* pages/ScanHistory: page and status filter, the list query, the buttons
PAGE_SIZE == 10
statusFilters == {"", "pending", "running", "completed", "failed", "cancelled"}
Totals == 0..(PAGE_SIZE * MaxPages)
MathMin(a, b) == IF a <= b THEN a ELSE b
MathMax(a, b) == IF a >= b THEN a ELSE b

\* data is undefined: scans and total fall back to [] and 0
NoData == [loaded |-> FALSE, scans |-> 0, total |-> 0]
\* a response of GET /scans: the number of scans of the page, and the total
ListData(n, t) == [loaded |-> TRUE, scans |-> n, total |-> t]

\* Math.ceil(total / 10)
totalPages(total) == (total + PAGE_SIZE - 1) \div PAGE_SIZE
TotalPages == totalPages(list.total)

\* the window without its branch for the last pages
pageNumNoEnd(i, p, n) ==
    IF n <= 5 THEN i + 1
    ELSE IF p <= 3 THEN i + 1
    ELSE p - 2 + i

\* the number on the i-th page button, i from 0
pageNum(i, p, n) ==
    IF n <= 5 THEN i + 1
    ELSE IF p <= 3 THEN i + 1
    ELSE IF p >= n - 2 THEN n - 4 + i
    ELSE p - 2 + i

\* the page buttons rendered, left to right
PageButtons(p, n) == [k \in 1..MathMin(5, n) |-> pageNum(k - 1, p, n)]

\* the pagination is rendered below a non-empty list of more than one page
\* (the search box is left empty, so filteredScans is scans)
PaginationShown == list.loaded /\ list.scans > 0 /\ TotalPages > 1

\* the view is mounted: first page, all statuses, the list is being fetched
ScanHistoryInit ==
    /\ page = 1
    /\ statusFilter = ""
    /\ list = NoData
    /\ clicked = "none"

\* the query key is [page, statusFilter]: a new key has no data yet
DataOfKey(p, f) == IF <<p, f>> = <<page, statusFilter>> THEN list ELSE NoData

\* setPage from one of the pagination buttons
setPage(p, control) ==
    /\ PaginationShown
    /\ page' = p
    /\ list' = DataOfKey(p, statusFilter)
    /\ clicked' = control
    /\ UNCHANGED statusFilter
    /\ UNCHANGED nonListVars

PreviousPage ==
    /\ page # 1
    /\ setPage(MathMax(1, page - 1), "previous")

NextPage ==
    /\ page # TotalPages
    /\ setPage(MathMin(TotalPages, page + 1), "next")

PageButton(k) ==
    /\ k \in 1..MathMin(5, TotalPages)
    /\ setPage(PageButtons(page, TotalPages)[k], "page")

\* the select keeps the page it was on
setStatusFilterKeepPage(f) ==
    /\ f # statusFilter
    /\ statusFilter' = f
    /\ list' = DataOfKey(page, f)
    /\ clicked' = "filter"
    /\ UNCHANGED page
    /\ UNCHANGED nonListVars

\* the select's onChange: setStatusFilter(value); setPage(1)
setStatusFilter(f) ==
    /\ f # statusFilter
    /\ statusFilter' = f
    /\ page' = 1
    /\ list' = DataOfKey(1, f)
    /\ clicked' = "filter"
    /\ UNCHANGED nonListVars

\* the list request of the current key is answered
ListFetched(n, t) ==
    /\ ~list.loaded
    /\ list' = ListData(n, t)
    /\ UNCHANGED <<page, statusFilter, clicked>>
    /\ UNCHANGED nonListVars

ScanHistoryNext ==
    \/ PreviousPage
    \/ NextPage
    \/ \E k \in 1..5 : PageButton(k)
    \/ \E f \in statusFilters : setStatusFilter(f)
    \/ \E n \in {0, 1, PAGE_SIZE}, t \in Totals : ListFetched(n, t)

\* the view right after it is mounted on /scan/:id: the scan query fetches
PollInit ==
    /\ store = EmptyStore
    /\ req = [r \in Reqs |-> NewRequest]
    /\ nextTok = 0
    /\ loginPc = "idle"
    /\ tokenResponse = NoToken
    /\ lastRefresh = NoRefresh
    /\ mounted = TRUE
    /\ serverStatus \in ScanStatus
    /\ scan = [NoScan EXCEPT !.fetching = TRUE]
    /\ interval = IntervalOff
    /\ vuln = "idle"
    /\ fetches = [NoFetches EXCEPT !.mount = 1]
    /\ FormInit
    /\ ToastInit
    /\ RouteInit
    /\ ScanHistoryInit

PollNext ==
    \/ \E to \in ScanStatus : ServerAdvance(to)
    \/ PollTick
    \/ ManualRefetch
    \/ ScanFetchOk
    \/ ScanFetchError
    \/ \E ok \in BOOLEAN : VulnFetchDone(ok)
    \/ Unmount

PollSpec == PollInit /\ [][PollNext]_vars

\* ------------------------------------------------------ the client's spec
Init ==
    /\ store = EmptyStore
    /\ req = [r \in Reqs |-> NewRequest]
    /\ nextTok = 0
    /\ loginPc = "idle"
    /\ tokenResponse = NoToken
    /\ lastRefresh = NoRefresh
    /\ mounted = FALSE
    /\ serverStatus = "pending"
    /\ scan = NoScan
    /\ interval = IntervalOff
    /\ vuln = "idle"
    /\ fetches = NoFetches
    /\ FormInit
    /\ ToastInit
    /\ RouteInit
    /\ ScanHistoryInit

Next ==
    \/ \E r \in DataReqs : CallApi(r)
    \/ LoginSubmit
    \/ \E r \in Reqs, st \in Statuses : Respond(r, st)
    \/ \E r \in Reqs : RefreshOk(r)
    \/ \E r \in Reqs, st \in RefreshFailures : RefreshError(r, st)
    \/ Logout


Spec == Init /\ [][Next]_vars

\* the new-scan form on its own
FormSpec == Init /\ [][FormNext]_vars

\* the error toasts of the register and login pages on their own
ToastSpec == Init /\ [][ToastNext]_vars

\* the router on its own
RouteSpec == Init /\ [][RouteNext]_vars

\* the scan history page on its own
HistorySpec == Init /\ [][ScanHistoryNext]_vars

\* ================================================================ claims
InFlight(r) == req[r].pc = "sent"
IsSent(r) == req[r].pc # "sent" /\ req'[r].pc = "sent"

\* C1: every request on the wire (original or retried) that was sent while
\* the store held an access token carries exactly that token as its bearer.
C1_BearerIsStoredToken ==
    \A r \in Reqs :
        InFlight(r) /\ req[r].storeAtSend.accessToken # NoToken
            => req[r].Authorization = req[r].storeAtSend.accessToken

\* a retried request on the wire, sent while the store held a token
C1_Witness ==
    \E r \in DataReqs :
        /\ InFlight(r) /\ req[r].retry
        /\ req[r].storeAtSend.accessToken # NoToken
        /\ req[r].Authorization = req[r].storeAtSend.accessToken

\* C2: a request is sent at most twice and refreshed for at most once; the
\* answer to the retry settles the caller with that answer, so a 401 on the
\* retry is delivered as the retry's 401 with no further refresh or send.
C2_RetriedAtMostOnce ==
    \A r \in Reqs :
        /\ req[r].nSend <= 2
        /\ req[r].nRefresh <= 1
        /\ Len(req[r].answers) = 2
            => /\ req[r].pc = "done"
               /\ req[r].nSend = 2 /\ req[r].nRefresh = 1
               /\ req[r].result.from = "retry"
               /\ req[r].result.status = req[r].answers[2]
               /\ req[r].answers[2] # 200 => req[r].result.kind = "err"

\* a request whose retry was answered 401 as well
C2_Witness ==
    \E r \in DataReqs :
        /\ req[r].pc = "done"
        /\ req[r].answers = <<UNAUTHORIZED, UNAUTHORIZED>>
        /\ req[r].result = [kind |-> "err", from |-> "retry", status |-> UNAUTHORIZED]

\* the step in which a first 401 ends without a retry: the store held no
\* refresh token, or the refresh call failed
EndsUnrecovered(r) ==
    /\ req'[r].pc = "done"
    /\ \/ req[r].pc = "refreshing"
       \/ req[r].pc = "sent" /\ ~req[r].retry /\ req'[r].answers = <<UNAUTHORIZED>>

\* C3: when a first 401 cannot be recovered (no refresh token, or the refresh
\* call fails) the session is torn down in that step, the caller gets the
\* original 401 and not the refresh call's error, and nothing is re-sent.
C3_UnrecoveredTearsDown ==
    [][\A r \in DataReqs :
         EndsUnrecovered(r)
            => /\ store' = EmptyStore
               /\ req'[r].result = [kind |-> "err", from |-> "orig", status |-> UNAUTHORIZED]
               /\ req'[r].nSend = 1
               /\ req'[r].tornDown]_vars

\* a request whose refresh call failed, after a login, with the session gone
C3_Witness ==
    \E r \in DataReqs :
        /\ req[r].pc = "done" /\ req[r].refreshed = "failed"
        /\ req[r].result = [kind |-> "err", from |-> "orig", status |-> UNAUTHORIZED]
        /\ store = EmptyStore /\ nextTok > 0

\* C4: a call whose original send is answered 401 and whose refresh call
\* succeeds costs exactly one refresh call and one re-send, and when the
\* re-send is answered 200 the caller gets that response and no error.
C4_TransparentRefresh ==
    \A r \in DataReqs :
        req[r].refreshed = "ok"
            => /\ req[r].answers[1] = UNAUTHORIZED
               /\ req[r].nRefresh = 1 /\ req[r].nSend = 2
               /\ \/ InFlight(r) /\ Len(req[r].answers) = 1
                  \/ req[r].pc = "done" /\ Len(req[r].answers) = 2
               /\ req[r].pc = "done" /\ req[r].answers[2] = 200
                    => req[r].result = [kind |-> "ok", from |-> "retry", status |-> 200]

\* a call answered 401, refreshed, re-sent and answered 200
C4_Witness ==
    \E r \in DataReqs :
        /\ req[r].pc = "done" /\ req[r].refreshed = "ok"
        /\ req[r].answers = <<UNAUTHORIZED, 200>>
        /\ req[r].result.kind = "ok"

\* C5: while the last write to the session is a successful refresh, every
\* request that is sent carries the access token that refresh issued and not
\* the one held before it.
C5_FreshTokenAfterRefresh ==
    [][\A r \in Reqs :
         IsSent(r) /\ lastRefresh'.active
            => /\ req'[r].Authorization = lastRefresh'.fresh
               /\ req'[r].Authorization # lastRefresh'.stale]_vars

\* a request other than the retried one, sent after the refresh with a
\* stale token having been held
C5_Witness ==
    \E r \in DataReqs :
        /\ InFlight(r) /\ ~req[r].retry
        /\ lastRefresh.active /\ lastRefresh.stale # NoToken
        /\ req[r].Authorization = lastRefresh.fresh

\* C6: a re-issued request is sent with the store holding both tokens of the
\* pair its refresh call returned, and carries that pair's access token.
C6_RotatedBeforeRetry ==
    \A r \in Reqs :
        InFlight(r) /\ req[r].retry
            => /\ req[r].issued.accessToken # NoToken
               /\ req[r].issued.refreshToken # NoToken
               /\ req[r].storeAtSend = req[r].issued
               /\ req[r].Authorization = req[r].issued.accessToken

\* a re-issued request on the wire while the store still holds its pair
C6_Witness ==
    \E r \in DataReqs :
        /\ InFlight(r) /\ req[r].retry
        /\ store.accessToken = req[r].issued.accessToken
        /\ store.refreshToken = req[r].issued.refreshToken
        /\ store.refreshToken # NoToken

\* C7: a request carries a bearer credential only if the store held an
\* access token at the moment it was sent.
C7_BearerOnlyIfStored ==
    \A r \in Reqs :
        InFlight(r) /\ req[r].Authorization # NoToken
            => req[r].storeAtSend.accessToken # NoToken

\* a retry that raced with a logout: the user logged out while the refresh
\* call was awaited, and the retry is on the wire with a bearer
C7_Witness ==
    \E r \in DataReqs :
        /\ InFlight(r) /\ req[r].retry /\ req[r].Authorization # NoToken
        /\ ~store.isAuthenticated /\ loginPc = "idle"

\* the step in which a send is answered with a failure other than a 401
FailsOtherwise(r) ==
    /\ req[r].pc = "sent"
    /\ Len(req'[r].answers) = Len(req[r].answers) + 1
    /\ Last(req'[r].answers) \notin {200, UNAUTHORIZED}

\* C8: a failure that is not a 401 (no response, 5xx, another 4xx) starts no refresh call
\* and no retry, leaves the session store as it is, and is delivered to the
\* caller as it is.
C8_OnlyUnauthorizedRecovers ==
    [][\A r \in DataReqs :
         FailsOtherwise(r)
            => /\ store' = store
               /\ req'[r].pc = "done"
               /\ req'[r].nRefresh = req[r].nRefresh
               /\ req'[r].nSend = req[r].nSend
               /\ req'[r].result = [kind |-> "err", from |-> Attempt(req[r]),
                                    status |-> Last(req'[r].answers)]]_vars

\* a first send that failed without a response, with the session kept
C8_Witness ==
    \E r \in DataReqs :
        /\ req[r].pc = "done" /\ req[r].answers = <<NoResponse>>
        /\ req[r].result = [kind |-> "err", from |-> "orig", status |-> NoResponse]
        /\ req[r].nRefresh = 0 /\ req[r].nSend = 1
        /\ store.refreshToken # NoToken

\* C9: while the view shows a scan last seen pending or running the 3-second
\* refetch interval is armed; once a terminal status is seen the interval is
\* off, stays off, and no periodic fetch is issued any more.
C9_PollingStopsAtTerminal ==
    /\ [](mounted /\ scan.data \in NonTerminal => interval = REFETCH_MS)
    /\ [](scan.data \in Terminal => interval = IntervalOff)
    /\ [][fetches'.poll # fetches.poll
            => /\ scan.data \in NonTerminal /\ interval = REFETCH_MS
               /\ fetches'.poll = fetches.poll + 1]_vars
    /\ [][scan.data \in Terminal
            => /\ scan'.data \in Terminal
               /\ interval' = IntervalOff
               /\ fetches'.poll = fetches.poll]_vars

\* the view still mounted, a poll having seen the scan completed
C9_Witness ==
    /\ mounted /\ ~scan.fetching
    /\ fetches.poll >= 1 /\ fetches.manual = 0
    /\ scan.data = "completed"
    /\ interval = IntervalOff

\* C10: a vulnerability-list request is issued only in a step of the mounted
\* view after which the last scan status seen is completed: never while the
\* scan has been seen only pending, running, failed or cancelled, or not at
\* all.
C10_VulnOnlyWhenCompleted ==
    [][fetches'.vuln # fetches.vuln \/ (vuln # "fetching" /\ vuln' = "fetching")
          => /\ scan'.data = "completed"
             /\ mounted
             /\ fetches'.vuln = fetches.vuln + 1]_vars

\* the vulnerability list requested after a poll saw the scan completed
C10_Witness ==
    /\ scan.data = "completed" /\ fetches.poll >= 1
    /\ fetches.vuln = 1 /\ vuln = "fetching"

\* C11: after a fetch of the scan has failed, no periodic fetch is issued
\* until a fetch succeeds again: polling does not go on over a failing
\* resource.
C11_NoPollAfterError ==
    [][scan.failed => fetches'.poll = fetches.poll]_vars

\* C12: an unmounted view has no interval armed and issues no scan fetch,
\* whatever status it saw last.
C12_UnmountCancelsPolling ==
    /\ [](~mounted => interval = IntervalOff)
    /\ [][~mounted => /\ ScanFetches' = ScanFetches
                      /\ fetches' = fetches
                      /\ interval' = IntervalOff]_vars

\* a view that polled, was unmounted while the scan was still running, and
\* whose cache then received a running scan from the fetch in flight
C12_Witness ==
    /\ ~mounted /\ ~scan.fetching
    /\ scan.data \in NonTerminal /\ fetches.poll >= 1
    /\ interval = IntervalOff

\* ---------------------------------------------------------------------
\* The race of two expired requests (spec 4.1, "racing refresh"): a session
\* whose access token has expired while its refresh token is still good, and
\* a backend on which every refresh call succeeds.

\* the access token of the session the race starts from: it expires at some
\* moment of the race; the tokens the backend issues afterwards are accepted
ExpiredAccess == AccessOf(1)

\* what the backend answers once it has accepted the request's token
Accepted == Statuses \ {UNAUTHORIZED}

\* the backend's possible answers to a request carrying `token`: a request
\* with the expiring token arrives before or after the expiry
BackendStatus(token) ==
    IF token = NoToken THEN {UNAUTHORIZED}
    ELSE IF token = ExpiredAccess THEN Accepted \cup {UNAUTHORIZED}
    ELSE Accepted

\* the state after a completed login with pair 1, the login page unmounted
RaceInit ==
    /\ store = login(EmptyStore, ExpiredAccess, RefreshOf(1))
    /\ req = [r \in Reqs |-> NewRequest]
    /\ nextTok = 1
    /\ loginPc = "idle"
    /\ tokenResponse = NoToken
    /\ lastRefresh = NoRefresh
    /\ mounted = FALSE
    /\ serverStatus = "pending"
    /\ scan = NoScan
    /\ interval = IntervalOff
    /\ vuln = "idle"
    /\ fetches = NoFetches
    /\ FormInit
    /\ ToastInit
    /\ RouteInit
    /\ ScanHistoryInit

RaceNext ==
    \/ \E r \in DataReqs : CallApi(r)
    \/ \E r \in DataReqs : \E st \in BackendStatus(req[r].Authorization) :
          Respond(r, st)
    \/ \E r \in DataReqs : RefreshOk(r)

RaceSpec == RaceInit /\ [][RaceNext]_vars

\* C14: when every refresh call succeeds, in every interleaving of requests
\* sent with the expired token no request tears the session down, no caller
\* is handed a 401, a caller whose last attempt the backend answered 200
\* receives that response, the store always holds a matching access/refresh
\* pair, and once a refresh call has returned that pair is the one the latest
\* refresh call issued.
C14_RacingRefreshBenign ==
    /\ store.isAuthenticated
    /\ store.accessToken # NoToken
    /\ store.refreshToken = RefreshOf(store.accessToken)
    /\ \A r \in DataReqs :
          /\ ~req[r].tornDown
          /\ req[r].refreshed # "failed"
          /\ req[r].pc = "done"
             => /\ req[r].result.status # UNAUTHORIZED
                /\ req[r].result.status = Last(req[r].answers)
                /\ Last(req[r].answers) = 200 => req[r].result.kind = "ok"
          /\ req[r].refreshed = "ok"
             => /\ store.accessToken # ExpiredAccess
                /\ store.accessToken = AccessOf(nextTok)
                /\ lastRefresh.active /\ lastRefresh.fresh = store.accessToken

\* both requests were answered 401, both refreshed, both retries succeeded
C14_Witness ==
    \E a, b \in DataReqs :
        /\ a # b
        /\ req[a].pc = "done" /\ req[b].pc = "done"
        /\ req[a].answers = <<UNAUTHORIZED, 200>>
        /\ req[b].answers = <<UNAUTHORIZED, 200>>
        /\ req[a].result.kind = "ok" /\ req[b].result.kind = "ok"
        /\ store.accessToken = AccessOf(1 + 2)

\* request r receives, in this step, the 401 answer to its first attempt
FirstUnauthorized(r) ==
    /\ req[r].pc = "sent" /\ ~req[r].retry
    /\ Len(req'[r].answers) = Len(req[r].answers) + 1
    /\ Last(req'[r].answers) = UNAUTHORIZED

\* the number of refresh calls in flight
RefreshCallsInFlight == Cardinality({r \in Reqs : req[r].pc = "refreshing"})

\* C13: every request whose first attempt is answered 401 while the store
\* holds a refresh token issues its own refresh call with that token, however
\* many refresh calls are already in flight; every waiting request has issued
\* exactly one call and no request is sent more than twice.
C13_NoSingleFlight ==
    /\ [][\A r \in Reqs :
            FirstUnauthorized(r) /\ store.refreshToken # NoToken
            => /\ req'[r].pc = "refreshing"
               /\ req'[r].nRefresh = req[r].nRefresh + 1
               /\ req'[r].rt = store.refreshToken
               /\ RefreshCallsInFlight' = RefreshCallsInFlight + 1]_vars
    /\ [](\A r \in Reqs : /\ req[r].pc = "refreshing" => req[r].nRefresh = 1
                          /\ req[r].nSend <= 2 /\ req[r].nRefresh <= 1)

\* two requests wait at once, each on a refresh call of its own that carries
\* the same refresh token
C13_Witness ==
    \E a, b \in DataReqs :
        /\ a # b
        /\ req[a].pc = "refreshing" /\ req[b].pc = "refreshing"
        /\ req[a].nRefresh = 1 /\ req[b].nRefresh = 1
        /\ req[a].rt = req[b].rt
        /\ RefreshCallsInFlight = 2

\* request b is the next one a page can issue
NextToIssue(b) ==
    /\ b \in DataReqs /\ req[b].pc = "idle"
    /\ \A i \in 1..(b[2] - 1) : req[<<"data", i>>].pc # "idle"

\* C15: while request a waits for its refresh call, any other request can
\* still be sent, and one that is on the wire can still be answered and
\* settle: nothing but a itself waits for a's refresh.
C15_RefreshSuspendsOnlyItsRequest ==
    \A a \in Reqs, b \in DataReqs :
        a # b /\ req[a].pc = "refreshing"
        => /\ NextToIssue(b) => ENABLED CallApi(b)
           /\ req[b].pc = "sent" => ENABLED Respond(b, 200)

\* the second request was sent and has completed successfully while the
\* first one is still waiting for its refresh call
C15_Witness ==
    /\ req[<<"data", 1>>].pc = "refreshing"
    /\ req[<<"data", 2>>].pc = "done"
    /\ req[<<"data", 2>>].result.kind = "ok"
    /\ req[<<"data", 2>>].nRefresh = 0

\* the login call settles successfully in this step and /auth/me goes out
MeIsSent == loginPc = "awaitLogin" /\ loginPc' = "awaitMe"

\* C16: when the login call succeeds the returned pair is in the store before
\* /auth/me is sent, and /auth/me carries the returned access token; the
\* session is not authenticated while the login flow runs, and it becomes
\* authenticated only in the step in which /auth/me is answered successfully.
C16_TokensStoredBeforeMe ==
    /\ [][MeIsSent
          => /\ tokenResponse' # NoToken
             /\ store'.accessToken = AccessOf(tokenResponse')
             /\ store'.refreshToken = RefreshOf(tokenResponse')
             /\ req'[MeReq].pc = "sent"
             /\ req'[MeReq].Authorization = AccessOf(tokenResponse')
             /\ req'[MeReq].storeAtSend.accessToken = AccessOf(tokenResponse')
             /\ ~store'.isAuthenticated]_vars
    /\ [](loginPc # "idle" => ~store.isAuthenticated)
    /\ [][~store.isAuthenticated /\ store'.isAuthenticated
          => /\ loginPc = "awaitMe" /\ loginPc' = "idle"
             /\ req[MeReq].pc = "sent"
             /\ store'.accessToken = AccessOf(tokenResponse)
             /\ store'.refreshToken = RefreshOf(tokenResponse)]_vars

\* /auth/me is on the wire with the access token the login call returned,
\* and the session is not yet authenticated
C16_Witness ==
    /\ loginPc = "awaitMe"
    /\ req[MeReq].pc = "sent" /\ ~req[MeReq].retry
    /\ tokenResponse # NoToken
    /\ req[MeReq].Authorization = AccessOf(tokenResponse)
    /\ store.accessToken = AccessOf(tokenResponse)
    /\ ~store.isAuthenticated

\* the login flow ends in this step without the session being authenticated
LoginAttemptFails == loginPc # "idle" /\ loginPc' = "idle" /\ ~store'.isAuthenticated

\* C17: a login attempt that fails, at the login call or at /auth/me, leaves
\* in the store neither the access token nor the refresh token the login
\* call of that attempt returned.
C17_FailedLoginLeavesNoTokens ==
    [][LoginAttemptFails /\ tokenResponse # NoToken
       => /\ store'.accessToken # AccessOf(tokenResponse)
          /\ store'.refreshToken # RefreshOf(tokenResponse)]_vars

\* a POST /scans goes out in this step
CreateIsSent == ~loading /\ loading'

\* C18: a create request goes out only from a form whose URL field is not
\* empty, whose agreement checkbox is checked, and whose scheme-completed URL
\* parses; the request carries that completed URL, and nothing else changes
\* the record of what was posted.
C18_CreateOnlyWithConsent ==
    /\ [][CreateIsSent
          => /\ url # <<>>
             /\ agreed
             /\ URLParses(targetUrl(url))
             /\ posted' = targetUrl(url)]_vars
    /\ [][posted' # posted => CreateIsSent]_vars

\* a create request is in flight for a URL typed without a scheme
C18_Witness ==
    /\ loading
    /\ posted = <<"https://", "host">>
    /\ url = <<"host">>
    /\ agreed

\* the failure shown is a validation failure whose detail has several entries
SeveralEntries ==
    /\ screen # "none" /\ pending = <<>>
    /\ failure.response /\ failure.status # 500
    /\ failure.detail.kind = "array"
    /\ Len(failure.detail.entries) >= 2

\* C19: on the register page and on the login page, a validation detail with
\* several entries is shown as one toast per entry, each holding one text.
C19_EachEntryOwnMessage ==
    SeveralEntries
    => /\ Len(toasts) = Len(failure.detail.entries)
       /\ \A i \in 1..Len(toasts) : Len(toasts[i]) = 1

\* C20: a view issues the vulnerability request at most once; a mounted view
\* that has seen the scan completed has issued it exactly once; and no step
\* taken after completed was seen, a re-fetch observing completed again
\* included, issues it another time.
C20_VulnFetchedOnce ==
    /\ [](/\ fetches.vuln <= 1
          /\ mounted /\ scan.data = "completed" => fetches.vuln = 1)
    /\ [][scan.data = "completed"
          => /\ fetches'.vuln = fetches.vuln
             /\ vuln' = "fetching" => vuln = "fetching"]_vars

\* the list was fetched once and has arrived, and a manual re-fetch of the
\* completed scan is in flight
C20_Witness ==
    /\ mounted
    /\ scan.data = "completed" /\ scan.fetching
    /\ fetches.manual >= 1
    /\ fetches.vuln = 1 /\ vuln = "success"

\* the store holds no token / some token
TokensAbsent(s) == s.accessToken = NoToken /\ s.refreshToken = NoToken

\* C21: a store without tokens gets tokens again only from a step of the
\* login flow (the login call or /auth/me returning): a refresh call that
\* completes after the session was torn down writes nothing back.
C21_TornDownStaysEmpty ==
    [][TokensAbsent(store) /\ ~TokensAbsent(store')
       => loginPc # "idle" /\ loginPc' # loginPc]_vars

\* C22: the refresh call carries no Authorization header, whatever the store
\* holds; a request has at most one refresh call, and while it waits for that
\* call nothing starts another one for it: when the call fails the request
\* settles.
C22_RefreshBypassesClient ==
    /\ [](\A r \in Reqs :
            /\ req[r].pc = "refreshing"
               => req[r].refreshAuth = NoToken /\ req[r].rt # NoToken
            /\ req[r].nRefresh <= 1)
    /\ [][\A r \in Reqs :
            req[r].pc = "refreshing"
            => /\ req'[r].nRefresh <= req[r].nRefresh
               /\ req'[r].pc = "refreshing" => req'[r] = req[r]
               /\ req'[r].refreshed = "failed" => req'[r].pc = "done"]_vars

\* a refresh call is in flight while the store holds an access token, and
\* another request's refresh call has already failed
C22_Witness ==
    \E a, b \in DataReqs :
        /\ req[a].pc = "refreshing" /\ req[a].refreshAuth = NoToken
        /\ store.accessToken # NoToken
        /\ req[b].pc = "done" /\ req[b].refreshed = "failed" /\ req[b].nRefresh = 1

\* the retry of request r, sent after a successful refresh, is answered with
\* a failure in this step
RetryFails(r) ==
    /\ req[r].pc = "sent" /\ req[r].retry /\ req[r].refreshed = "ok"
    /\ Len(req'[r].answers) = Len(req[r].answers) + 1
    /\ ~IsSuccess(Last(req'[r].answers))

\* C23: when the retry that follows a successful refresh fails, with a 401
\* or with anything else, the store is left as it is, logout is not called,
\* and the caller receives the error of the retry; the same holds for the
\* retry of /auth/me, whose failure ends the login attempt.
C23_FailedRetryKeepsSession ==
    /\ [][\A r \in DataReqs :
            RetryFails(r)
            => /\ store' = store
               /\ req'[r].pc = "done" /\ ~req'[r].tornDown
               /\ req'[r].result = [kind |-> "err", from |-> "retry",
                                    status |-> Last(req'[r].answers)]]_vars
    /\ [][/\ req[MeReq].pc = "sent" /\ req[MeReq].retry
          /\ req'[MeReq].pc = "idle" /\ ~store'.isAuthenticated
          => store' = store]_vars

\* a request ended with the second 401, the one its retry received, and the
\* store still holds a token pair
C23_Witness ==
    \E r \in DataReqs :
        /\ req[r].pc = "done" /\ req[r].refreshed = "ok"
        /\ req[r].answers = <<UNAUTHORIZED, UNAUTHORIZED>>
        /\ req[r].result = [kind |-> "err", from |-> "retry", status |-> UNAUTHORIZED]
        /\ ~req[r].tornDown
        /\ lastRefresh.active /\ store.accessToken = lastRefresh.fresh
        /\ store.refreshToken = RefreshOf(store.accessToken)

\* C24: the interval of a mounted view is the one the last successfully
\* fetched scan gives; when the first fetch has failed there is no data, no
\* interval is armed, the view renders the not-found state, and the view
\* issues no further scan fetch.
C24_FirstFetchFailure ==
    /\ [](mounted => (interval = REFETCH_MS <=> scan.data \in NonTerminal))
    /\ [](mounted /\ scan.data = "none" /\ scan.failed
          => /\ ~scan.fetching
             /\ interval = IntervalOff
             /\ Rendered(scan) = "notFound")
    /\ [][scan.data = "none" /\ scan.failed
          => ScanFetches' = ScanFetches /\ scan'.data = "none"]_vars

\* the mount fetch has failed: the only fetch the view issued
C24_Witness ==
    /\ mounted
    /\ scan = [data |-> "none", fetching |-> FALSE, failed |-> TRUE]
    /\ fetches = [NoFetches EXCEPT !.mount = 1]
    /\ interval = IntervalOff
    /\ Rendered(scan) = "notFound"

\* the refetch button is pressed in this step
ManualPressed == fetches'.manual = fetches.manual + 1

\* C25: the refetch button can be pressed in every status the view has
\* observed; pressed on a terminal status it issues one scan fetch and arms
\* no interval, and when the fetch returns a terminal status the interval
\* stays off and no poll follows.
C25_ManualRefreshOnTerminal ==
    /\ [](mounted /\ scan.data \in ScanStatus /\ ScanFetches < MaxFetch
          => ENABLED ManualRefetch)
    /\ [][scan.data \in Terminal /\ ManualPressed
          => /\ ScanFetches' = ScanFetches + 1
             /\ fetches'.poll = fetches.poll
             /\ scan'.fetching
             /\ interval' = IntervalOff]_vars
    /\ [][scan.data \in Terminal /\ scan'.data \in Terminal
          => interval' = IntervalOff /\ fetches'.poll = fetches.poll]_vars

\* the button was pressed on a failed scan: its fetch is in flight and no
\* interval is armed
C25_Witness ==
    /\ mounted
    /\ scan.data = "failed" /\ scan.fetching
    /\ fetches.manual >= 1
    /\ interval = IntervalOff

ProtectedPaths == {<<"dashboard">>, <<"scan", "new">>, <<"scan", "1">>, <<"history">>}
PublicOnlyPaths == {<<"login">>, <<"register">>}
ProtectedPages == {"Dashboard", "NewScan", "ScanDetail", "ScanHistory"}
KnownPaths == ProtectedPaths \cup PublicOnlyPaths \cup {<<>>}

\* C26: on a protected path the page is rendered if the store says
\* authenticated and a redirect to /login otherwise; on /login and /register
\* the page is rendered if it says not authenticated and a redirect to
\* /dashboard otherwise; on an unknown path a redirect to / is rendered; and
\* a rendered redirect replaces the location by its target in the next step.
C26_RouteGuarding ==
    /\ [](/\ Location \in ProtectedPaths
             => IF store.isAuthenticated
                THEN ~Element.navigate /\ Element.page \in ProtectedPages
                ELSE Element.navigate /\ Element.to = <<"login">>
          /\ Location \in PublicOnlyPaths
             => IF store.isAuthenticated
                THEN Element.navigate /\ Element.to = <<"dashboard">>
                ELSE ~Element.navigate /\ Element.page \in {"Login", "Register"}
          /\ Location \notin KnownPaths => Element.navigate /\ Element.to = <<>>
          /\ Element.page \in ProtectedPages => store.isAuthenticated
          /\ Element.page \in {"Login", "Register"} => ~store.isAuthenticated)
    /\ [][Element.navigate
          => /\ Location' = Element.to
             /\ Len(history') = Len(history)
             /\ store' = store]_vars

\* the session was torn down while a scan's detail was shown: the router
\* renders the redirect to /login instead of the page
C26_Witness ==
    /\ history = <<<<>>, <<"dashboard">>, <<"scan", "1">>>>
    /\ ~store.isAuthenticated
    /\ Element.navigate /\ Element.to = <<"login">>

\* C27: for every totalPages >= 2 and every current page in 1..totalPages,
\* the page buttons shown are min(5, totalPages) distinct consecutive page
\* numbers, all within 1..totalPages, and the current page is one of them
C27_PageWindow ==
    TotalPages >= 2 =>
        \A p \in 1..TotalPages :
            LET buttons == PageButtons(p, TotalPages)
            IN  /\ Len(buttons) = MathMin(5, TotalPages)
                /\ \A k \in 1..(Len(buttons) - 1) :
                       buttons[k + 1] = buttons[k] + 1
                /\ \A k \in 1..Len(buttons) : buttons[k] \in 1..TotalPages
                /\ \E k \in 1..Len(buttons) : buttons[k] = p

\* the pagination is shown on a page in the middle of more than five pages,
\* reached by a page button, and the window has moved with it
C27_Witness ==
    /\ PaginationShown
    /\ clicked = "page"
    /\ TotalPages = 7
    /\ page = 4
    /\ PageButtons(page, TotalPages) = <<2, 3, 4, 5, 6>>

\* C28 as stated: after any sequence of previous / next / page-button clicks
\* and status-filter changes, once the list is fetched and has at least one
\* page, the current page is within 1..totalPages
C28_PageWithinTotalPages ==
    (list.loaded /\ TotalPages >= 1) => page \in 1..TotalPages

\* C28, amended: the current page never goes below 1; previous moves it one
\* page down; next and the page buttons move it to a page within
\* 1..totalPages of the list as rendered when the button is pressed; every
\* status-filter change resets it to 1. (The list fetched for the new page
\* may report fewer pages, and the page is not moved back then.)
C28_ClicksStayInRange ==
    [][/\ page' >= 1
       /\ (statusFilter' # statusFilter => page' = 1)
       /\ (page' # page /\ clicked' \in {"next", "page"} =>
              /\ PaginationShown
              /\ page' \in 1..TotalPages)
       /\ (page' # page /\ clicked' = "previous" =>
              /\ PaginationShown
              /\ page' = page - 1)]_vars

\* the next button led to page 2, and the list fetched for it is empty and
\* has one page
C28_Witness ==
    /\ clicked = "next"
    /\ page = 2
    /\ list = ListData(0, PAGE_SIZE)
    /\ TotalPages = 1

====
